---- MODULE Spec2Model ----
(***************************************************************************)
(* Model of the Stripe request handlers of apps/api/src/routes/stripe      *)
(* (stripeServices: webhook, createCheckoutSession, createNoTrial-         *)
(* Subscription, setupIntent and the pass-through handlers).               *)
(*                                                                         *)
(* The payment provider is the system of record: its customers, payment    *)
(* intents, setup intents, subscriptions and sessions are the shared       *)
(* state.  Every request is a slot with its own position (pc), locals and  *)
(* a record of what it did: the responses it sent, the errors it passed to *)
(* next(), the exception that escaped it, and the calls it made.           *)
(* A synchronous handler is one action; an async handler is one action per *)
(* await, each being the provider call taking effect followed by the       *)
(* handler's code up to its next await.                                    *)
(***************************************************************************)
EXTENDS Integers, Sequences, FiniteSets, TLC

VARIABLES
    customers,       \* provider: sequence of [id, email]
    paymentIntents,  \* provider: sequence of [id, customer, status, client_secret]
    setupIntents,    \* provider: sequence of [id, customer, status, client_secret]
    subscriptions,   \* provider: sequence of subscription records
    sessions,        \* provider: checkout and billing-portal sessions
    req,             \* slot -> [kind, body] of the request received
    pc,              \* slot -> the await the handler is suspended at
    local,           \* slot -> the handler's local variables
    sent,            \* slot -> responses sent through res, in order
    nexted,          \* slot -> number of next(error) calls
    thrown,          \* slot -> an exception left the handler uncaught
    calls,           \* slot -> provider and stripeEvents calls made, in order
    logged           \* slot -> logger calls made, in order

vars == <<customers, paymentIntents, setupIntents, subscriptions, sessions,
          req, pc, local, sent, nexted, thrown, calls, logged>>

provider == <<customers, paymentIntents, setupIntents, subscriptions, sessions>>

(***************************************************************************)
(* Bounds                                                                  *)
(***************************************************************************)
\* requests in flight over one behaviour
NumReq == 2
\* customers the provider holds before the first request
MaxInitCustomers == 2
\* payment intents (setup intents) the provider holds before the first request
MaxIntents == 2

Slots == 1..NumReq

(***************************************************************************)
(* Values                                                                  *)
(***************************************************************************)
Undefined == "undefined"
Null == [id |-> 0]

Emails == {"a@x.com", "b@x.com"}
Statuses == {"requires_payment_method", "succeeded"}

\* JavaScript truthiness of a request field (!x)
Falsy(v) == v \in {Undefined, ""}

IdleReq == [kind |-> "idle"]
NoLocal == [customerExists |-> <<>>, customer |-> Null, data |-> <<>>]

\* a request enters a free slot; slots fill in order
Free(r) ==
    /\ req[r] = IdleReq
    /\ \A q \in 1..(r-1) : req[q] # IdleReq

At(r, kind, label) == req[r].kind = kind /\ pc[r] = label

Call(op, ok, id) == [op |-> op, ok |-> ok, id |-> id]

\* res.send(body) / res.status(s).send(body) / res.redirect(s, url)
Send(body) == [status |-> 200, body |-> body]
BadRequest == 400
SeeOther == 303
StatusSend(s, body) == [status |-> s, body |-> body]
Redirect(s, url) == [status |-> s, location |-> url]

(***************************************************************************)
(* webhook                                                                 *)
(***************************************************************************)
WebhookSecret == "whsec_env"
NoSignature == <<>>

\* the provider's signing scheme: a signature binds a payload to a secret
Sign(payload, secret) == <<payload, secret>>

LogOnlyTypes == {"payment_intent.succeeded", "payment_intent.payment_failed",
                 "checkout.session.completed", "invoice.paid",
                 "invoice.payment_failed"}
HandledTypes == {"setup_intent.succeeded", "invoice.payment_succeeded",
                 "customer.subscription.created"}
EventTypes == LogOnlyTypes \cup HandledTypes \cup {"charge.refunded"}

\* the signature headers a sender can put on a body: none, the genuine one,
\* one made with another secret, the genuine one of another body
SignatureHeaders(rawBody) ==
    {NoSignature, Sign(rawBody, WebhookSecret), Sign(rawBody, "whsec_other"),
     Sign([type |-> "tampered"], WebhookSecret)}

\* constructEvent without the check for an absent signature header
constructEvent_MissingHeaderAccepted(rawBody, sig, secret) ==
    IF sig = Sign(rawBody, secret) \/ sig = NoSignature
    THEN [ok |-> TRUE, event |-> [type |-> rawBody.type]]
    ELSE [ok |-> FALSE, message |-> "No signatures found matching the expected signature"]

\* stripe.webhooks.constructEvent: the parsed event, or a throw
constructEvent(rawBody, sig, secret) ==
    IF sig = Sign(rawBody, secret)
    THEN [ok |-> TRUE, event |-> [type |-> rawBody.type]]
    ELSE [ok |-> FALSE, message |-> "No signatures found matching the expected signature"]

\* the switch with the handlers of the two guarded cases exchanged
EventHandler_Exchanged(type) ==
    CASE type = "setup_intent.succeeded" -> "setupIntentSucceeded"
      [] type = "invoice.payment_succeeded" -> "customerSubscriptionCreated"
      [] type = "customer.subscription.created" -> "invoicePaymentSucceeded"
      [] OTHER -> "none"

\* the switch over event.type: the stripeEvents handler a case calls
EventHandler(type) ==
    CASE type = "setup_intent.succeeded" -> "setupIntentSucceeded"
      [] type = "invoice.payment_succeeded" -> "invoicePaymentSucceeded"
      [] type = "customer.subscription.created" -> "customerSubscriptionCreated"
      [] OTHER -> "none"

\* the cases whose handler call sits in a try/catch that calls next(error)
Guarded(type) == type \in {"invoice.payment_succeeded", "customer.subscription.created"}

\* the logger call of each case
EventLog(type) ==
    IF type \in LogOnlyTypes \cup HandledTypes
    THEN [level |-> "info", msg |-> type]
    ELSE [level |-> "debug", msg |-> <<"Unhandled event type", type>>]

\* The whole handler: it has no await, so it runs from receipt to return.
webhook(r) ==
    /\ Free(r)
    /\ \E type \in EventTypes :
       \E sig \in SignatureHeaders([type |-> type]) :
       \E handlerThrows \in BOOLEAN :
         LET rawBody == [type |-> type]
             v == constructEvent(rawBody, sig, WebhookSecret)
             h == EventHandler(v.event.type)
         IN /\ req' = [req EXCEPT ![r] = [kind |-> "webhook",
                                           body |-> [rawBody |-> rawBody, sig |-> sig]]]
            /\ pc' = [pc EXCEPT ![r] = "done"]
            /\ IF ~v.ok
               THEN \* catch (err): res.status(400).send(...); return
                    /\ handlerThrows = FALSE
                    /\ sent' = [sent EXCEPT ![r] =
                                 Append(@, StatusSend(BadRequest, <<"Webhook Error", v.message>>))]
                    /\ UNCHANGED <<nexted, thrown, calls, logged>>
               ELSE /\ logged' = [logged EXCEPT ![r] = Append(@, EventLog(v.event.type))]
                    /\ IF h = "none"
                       THEN /\ handlerThrows = FALSE
                            /\ sent' = [sent EXCEPT ![r] = Append(@, Send(<<>>))]
                            /\ UNCHANGED <<nexted, thrown, calls>>
                       ELSE /\ calls' = [calls EXCEPT ![r] = Append(@, Call(h, ~handlerThrows, 0))]
                            /\ IF handlerThrows /\ ~Guarded(v.event.type)
                               THEN \* the exception leaves webhook before res.send()
                                    /\ thrown' = [thrown EXCEPT ![r] = TRUE]
                                    /\ UNCHANGED <<nexted, sent>>
                               ELSE /\ nexted' = [nexted EXCEPT ![r] =
                                                   IF handlerThrows THEN @ + 1 ELSE @]
                                    /\ sent' = [sent EXCEPT ![r] = Append(@, Send(<<>>))]
                                    /\ UNCHANGED thrown
    /\ UNCHANGED <<provider, local>>

(***************************************************************************)
(* The provider operations the find-or-create handlers use                 *)
(***************************************************************************)
\* stripe.customers.search({query: `email:"${email}"`}).data
customersSearch(email) == SelectSeq(customers, LAMBDA c : c.email = email)

\* stripe.paymentIntents.search({query: `customer:"${id}"`}).data
paymentIntentsSearch(customerId) ==
    SelectSeq(paymentIntents, LAMBDA p : p.customer = customerId)

\* stripe.setupIntents.list({customer: id}).data
setupIntentsList(customerId) ==
    SelectSeq(setupIntents, LAMBDA p : p.customer = customerId)

\* the branch on the search result left out
CustomerFound_Never(customerExists) == FALSE

\* if (customerExists.data?.length)
CustomerFound(customerExists) == Len(customerExists) # 0

\* the last element taken instead of the first
FirstOrNull_Last(data) == IF Len(data) # 0 THEN data[Len(data)] ELSE Null

\* const [x] = data.length ? data : [null]
FirstOrNull(data) == IF Len(data) # 0 THEN data[1] ELSE Null

ClientSecret(prefix, id) == <<prefix, id, "secret">>

\* stripe.customers.create({email, name, metadata: {userId}}); by: the slot
\* whose request created it (0: it was there before the first request)
NewCustomer(id, body, by) ==
    [id |-> id, email |-> body.email, name |-> body.name,
     metadata |-> [userId |-> body.userId], by |-> by]

NewIntent(prefix, id, customerId, status, by) ==
    [id |-> id, customer |-> customerId, status |-> status,
     client_secret |-> ClientSecret(prefix, id), by |-> by]

\* a provider call that rejects: catch (error) { next(error) }
Rejects(r, op) ==
    /\ calls' = [calls EXCEPT ![r] = Append(@, Call(op, FALSE, 0))]
    /\ nexted' = [nexted EXCEPT ![r] = @ + 1]
    /\ pc' = [pc EXCEPT ![r] = "done"]
    /\ UNCHANGED <<provider, req, local, sent, thrown, logged>>

(***************************************************************************)
(* createNoTrialSubscription                                               *)
(***************************************************************************)
NoTrialBodies == {[name |-> "A", email |-> e, userId |-> "u1", priceId |-> "p1"] : e \in Emails}

\* the branch taken once a customer was found and its payment intents read:
\* paymentIntent.status of null is a TypeError
NoTrialExisting(customer, paymentIntent) ==
    IF paymentIntent = Null THEN [error |-> "TypeError"]
    ELSE IF paymentIntent.status = "requires_payment_method"
    THEN [send |-> [clientSecret |-> paymentIntent.client_secret, customerId |-> customer.id]]
    ELSE [send |-> [customerExist |-> customer.id]]

\* subscriptions.create without payment_behavior: the provider's default
NoTrialSubscription_DefaultBehavior(id, customerId, body, paymentIntentId, by) ==
    [id |-> id, customer |-> customerId, items |-> <<[price |-> body.priceId]>>,
     payment_behavior |-> "allow_incomplete",
     payment_settings |-> [save_default_payment_method |-> "on_subscription"],
     latest_invoice |-> [payment_intent |-> paymentIntentId],
     metadata |-> [userId |-> body.userId, email |-> body.email], by |-> by]

\* stripe.subscriptions.create({customer, items, payment_behavior, ...})
NoTrialSubscription(id, customerId, body, paymentIntentId, by) ==
    [id |-> id, customer |-> customerId, items |-> <<[price |-> body.priceId]>>,
     payment_behavior |-> "default_incomplete",
     payment_settings |-> [save_default_payment_method |-> "on_subscription"],
     latest_invoice |-> [payment_intent |-> paymentIntentId],
     metadata |-> [userId |-> body.userId, email |-> body.email], by |-> by]

\* entry, up to the resolution of customers.search and the branch on it
createNoTrialSubscription(r) ==
    /\ Free(r)
    /\ \E body \in NoTrialBodies :
         /\ req' = [req EXCEPT ![r] = [kind |-> "createNoTrialSubscription", body |-> body]]
         /\ \/ /\ calls' = [calls EXCEPT ![r] = Append(@, Call("customers.search", FALSE, 0))]
               /\ nexted' = [nexted EXCEPT ![r] = @ + 1]
               /\ pc' = [pc EXCEPT ![r] = "done"]
               /\ UNCHANGED local
            \/ LET customerExists == customersSearch(body.email)
               IN /\ calls' = [calls EXCEPT ![r] = Append(@, Call("customers.search", TRUE, 0))]
                  /\ local' = [local EXCEPT ![r] =
                        [customerExists |-> customerExists,
                         customer |-> IF CustomerFound(customerExists)
                                      THEN customerExists[1] ELSE Null,
                         data |-> <<>>]]
                  /\ pc' = [pc EXCEPT ![r] = IF CustomerFound(customerExists)
                                             THEN "paymentIntents.search"
                                             ELSE "customers.create"]
                  /\ UNCHANGED nexted
    /\ UNCHANGED <<provider, sent, thrown, logged>>

\* paymentIntents.search resolves; the handler answers
NoTrialPaymentIntentsSearch(r) ==
    /\ At(r, "createNoTrialSubscription", "paymentIntents.search")
    /\ \/ Rejects(r, "paymentIntents.search")
       \/ LET data == paymentIntentsSearch(local[r].customer.id)
              out == NoTrialExisting(local[r].customer, FirstOrNull(data))
          IN /\ calls' = [calls EXCEPT ![r] = Append(@, Call("paymentIntents.search", TRUE, 0))]
             /\ local' = [local EXCEPT ![r].data = data]
             /\ pc' = [pc EXCEPT ![r] = "done"]
             /\ IF "error" \in DOMAIN out
                THEN /\ nexted' = [nexted EXCEPT ![r] = @ + 1]
                     /\ UNCHANGED sent
                ELSE /\ sent' = [sent EXCEPT ![r] = Append(@, Send(out.send))]
                     /\ UNCHANGED nexted
             /\ UNCHANGED <<provider, req, thrown, logged>>

\* customers.create resolves
NoTrialCustomersCreate(r) ==
    /\ At(r, "createNoTrialSubscription", "customers.create")
    /\ \/ Rejects(r, "customers.create")
       \/ LET customer == NewCustomer(Len(customers) + 1, req[r].body, r)
          IN /\ customers' = Append(customers, customer)
             /\ calls' = [calls EXCEPT ![r] = Append(@, Call("customers.create", TRUE, customer.id))]
             /\ local' = [local EXCEPT ![r].customer = customer]
             /\ pc' = [pc EXCEPT ![r] = "subscriptions.create"]
             /\ UNCHANGED <<paymentIntents, setupIntents, subscriptions, sessions,
                            req, sent, nexted, thrown, logged>>

\* subscriptions.create resolves: the provider makes the subscription and
\* its first invoice's payment intent; the handler answers
NoTrialSubscriptionsCreate(r) ==
    /\ At(r, "createNoTrialSubscription", "subscriptions.create")
    /\ \/ Rejects(r, "subscriptions.create")
       \/ \E status \in Statuses :
          LET pi == NewIntent("pi", Len(paymentIntents) + 1, local[r].customer.id, status, r)
              subscription == NoTrialSubscription(Len(subscriptions) + 1,
                                  local[r].customer.id, req[r].body, pi.id, r)
              clientSecret == pi.client_secret
          IN /\ paymentIntents' = Append(paymentIntents, pi)
             /\ subscriptions' = Append(subscriptions, subscription)
             /\ calls' = [calls EXCEPT ![r] =
                            Append(@, Call("subscriptions.create", TRUE, subscription.id))]
             /\ logged' = [logged EXCEPT ![r] =
                            Append(@, [level |-> "debug", msg |-> <<"[SUBSCRIPTION]", subscription.id>>])]
             /\ sent' = [sent EXCEPT ![r] =
                            Append(@, Send([clientSecret |-> clientSecret,
                                            customerId |-> local[r].customer.id]))]
             /\ pc' = [pc EXCEPT ![r] = "done"]
             /\ UNCHANGED <<customers, setupIntents, sessions, req, local, nexted, thrown>>

(***************************************************************************)
(* setupIntent                                                             *)
(***************************************************************************)
SetupIntentBodies == {[name |-> "A", email |-> e, userId |-> "u1"] : e \in Emails}

\* the branch taken once a customer was found and its setup intents listed:
\* setupIntent.status of null is a TypeError
SetupIntentExisting(customer, intent) ==
    IF intent = Null THEN [error |-> "TypeError"]
    ELSE IF intent.status = "requires_payment_method"
    THEN [send |-> [clientSecret |-> intent.client_secret, customerId |-> customer.id]]
    ELSE [send |-> [customerExist |-> customer.id]]

\* entry, up to the resolution of customers.search and the branch on it
setupIntent(r) ==
    /\ Free(r)
    /\ \E body \in SetupIntentBodies :
         /\ req' = [req EXCEPT ![r] = [kind |-> "setupIntent", body |-> body]]
         /\ \/ /\ calls' = [calls EXCEPT ![r] = Append(@, Call("customers.search", FALSE, 0))]
               /\ nexted' = [nexted EXCEPT ![r] = @ + 1]
               /\ pc' = [pc EXCEPT ![r] = "done"]
               /\ UNCHANGED local
            \/ LET customerExists == customersSearch(body.email)
               IN /\ calls' = [calls EXCEPT ![r] = Append(@, Call("customers.search", TRUE, 0))]
                  /\ local' = [local EXCEPT ![r] =
                        [customerExists |-> customerExists,
                         customer |-> IF CustomerFound(customerExists)
                                      THEN customerExists[1] ELSE Null,
                         data |-> <<>>]]
                  /\ pc' = [pc EXCEPT ![r] = IF CustomerFound(customerExists)
                                             THEN "setupIntents.list"
                                             ELSE "customers.create"]
                  /\ UNCHANGED nexted
    /\ UNCHANGED <<provider, sent, thrown, logged>>

\* setupIntents.list resolves; the handler answers
SetupIntentSetupIntentsList(r) ==
    /\ At(r, "setupIntent", "setupIntents.list")
    /\ \/ Rejects(r, "setupIntents.list")
       \/ LET data == setupIntentsList(local[r].customer.id)
              out == SetupIntentExisting(local[r].customer, FirstOrNull(data))
          IN /\ calls' = [calls EXCEPT ![r] = Append(@, Call("setupIntents.list", TRUE, 0))]
             /\ local' = [local EXCEPT ![r].data = data]
             /\ pc' = [pc EXCEPT ![r] = "done"]
             /\ IF "error" \in DOMAIN out
                THEN /\ nexted' = [nexted EXCEPT ![r] = @ + 1]
                     /\ UNCHANGED sent
                ELSE /\ sent' = [sent EXCEPT ![r] = Append(@, Send(out.send))]
                     /\ UNCHANGED nexted
             /\ UNCHANGED <<provider, req, thrown, logged>>

\* customers.create resolves
SetupIntentCustomersCreate(r) ==
    /\ At(r, "setupIntent", "customers.create")
    /\ \/ Rejects(r, "customers.create")
       \/ LET customer == NewCustomer(Len(customers) + 1, req[r].body, r)
          IN /\ customers' = Append(customers, customer)
             /\ calls' = [calls EXCEPT ![r] = Append(@, Call("customers.create", TRUE, customer.id))]
             /\ local' = [local EXCEPT ![r].customer = customer]
             /\ pc' = [pc EXCEPT ![r] = "setupIntents.create"]
             /\ UNCHANGED <<paymentIntents, setupIntents, subscriptions, sessions,
                            req, sent, nexted, thrown, logged>>

\* setupIntents.create resolves; the handler answers
SetupIntentSetupIntentsCreate(r) ==
    /\ At(r, "setupIntent", "setupIntents.create")
    /\ \/ Rejects(r, "setupIntents.create")
       \/ \E status \in Statuses :
          LET intent == NewIntent("seti", Len(setupIntents) + 1, local[r].customer.id, status, r)
          IN /\ setupIntents' = Append(setupIntents, intent)
             /\ calls' = [calls EXCEPT ![r] =
                            Append(@, Call("setupIntents.create", TRUE, intent.id))]
             /\ logged' = [logged EXCEPT ![r] =
                            Append(@, [level |-> "debug", msg |-> <<"[SETUP_INTENT]", intent.id>>])]
             /\ sent' = [sent EXCEPT ![r] =
                            Append(@, Send([clientSecret |-> intent.client_secret,
                                            customerId |-> local[r].customer.id]))]
             /\ pc' = [pc EXCEPT ![r] = "done"]
             /\ UNCHANGED <<customers, paymentIntents, subscriptions, sessions,
                            req, local, nexted, thrown>>

(***************************************************************************)
(* createCheckoutSession and the pass-through handlers.  Each has at most  *)
(* one await, so each is one action: entry, the provider call, the answer. *)
(***************************************************************************)
TrialWeeks == 2
TrialPeriodDays == 14

CheckoutBodies ==
    [price : {Undefined, "", "price_1"}, email : {Undefined, "a@x.com"},
     userId : {Undefined, "u1"}]

\* && written for ||
CheckoutInvalid_Both(body) == Falsy(body.price) /\ Falsy(body.userId)

\* if (!price || !userId) throw new Error(...)
CheckoutInvalid(body) == Falsy(body.price) \/ Falsy(body.userId)

\* the parameters of stripe.checkout.sessions.create, and the session made
CheckoutSession(id, body) ==
    [id |-> id, object |-> "checkout.session", url |-> <<"checkout", id>>,
     mode |-> "subscription",
     line_items |-> <<[price |-> body.price, quantity |-> 1]>>,
     customer_email |-> body.email,
     subscription_data |-> [metadata |-> [userId |-> body.userId, email |-> body.email],
                            trial_end |-> <<"now", "+", TrialWeeks, "config.one_week">>],
     success_url |-> "/subscription-success?session_id={CHECKOUT_SESSION_ID}",
     cancel_url |-> "/checkout",
     customer |-> Null]

createCheckoutSession(r) ==
    /\ Free(r)
    /\ \E body \in CheckoutBodies :
         /\ req' = [req EXCEPT ![r] = [kind |-> "createCheckoutSession", body |-> body]]
         /\ pc' = [pc EXCEPT ![r] = "done"]
         /\ IF CheckoutInvalid(body)
            THEN /\ nexted' = [nexted EXCEPT ![r] = @ + 1]
                 /\ UNCHANGED <<sessions, calls, sent>>
            ELSE \/ /\ calls' = [calls EXCEPT ![r] =
                                   Append(@, Call("checkout.sessions.create", FALSE, 0))]
                    /\ nexted' = [nexted EXCEPT ![r] = @ + 1]
                    /\ UNCHANGED <<sessions, sent>>
                 \/ LET session == CheckoutSession(Len(sessions) + 1, body)
                    IN /\ sessions' = Append(sessions, session)
                       /\ calls' = [calls EXCEPT ![r] =
                                      Append(@, Call("checkout.sessions.create", TRUE, session.id))]
                       /\ sent' = [sent EXCEPT ![r] = Append(@, Redirect(SeeOther, session.url))]
                       /\ UNCHANGED nexted
    /\ UNCHANGED <<customers, paymentIntents, setupIntents, subscriptions,
                   local, thrown, logged>>

loadStripe(r) ==
    /\ Free(r)
    /\ req' = [req EXCEPT ![r] = [kind |-> "loadStripe"]]
    /\ pc' = [pc EXCEPT ![r] = "done"]
    /\ sent' = [sent EXCEPT ![r] =
                  Append(@, Send([publishableKey |-> "config.stripe.publishable_key"]))]
    /\ UNCHANGED <<provider, local, nexted, thrown, calls, logged>>

\* what stripe.prices.list can return for the configured lookup keys
PriceLists == {<<>>, <<"price_1">>}

loadPrices(r) ==
    /\ Free(r)
    /\ req' = [req EXCEPT ![r] = [kind |-> "loadPrices"]]
    /\ pc' = [pc EXCEPT ![r] = "done"]
    /\ \/ /\ calls' = [calls EXCEPT ![r] = Append(@, Call("prices.list", FALSE, 0))]
          /\ nexted' = [nexted EXCEPT ![r] = @ + 1]
          /\ UNCHANGED <<sent, logged>>
       \/ \E prices \in PriceLists :
          /\ calls' = [calls EXCEPT ![r] = Append(@, Call("prices.list", TRUE, 0))]
          /\ logged' = [logged EXCEPT ![r] =
                          IF Len(prices) = 0
                          THEN Append(@, [level |-> "warn", msg |-> "[STRIPE] prices array is empty"])
                          ELSE @]
          /\ sent' = [sent EXCEPT ![r] = Append(@, Send([prices |-> prices]))]
          /\ UNCHANGED nexted
    /\ UNCHANGED <<provider, local, thrown>>

checkoutSubscriptionSuccess(r) ==
    /\ Free(r)
    /\ \E sessionId \in 1..NumReq :
         /\ req' = [req EXCEPT ![r] = [kind |-> "checkoutSubscriptionSuccess",
                                       body |-> [sessionId |-> sessionId]]]
         /\ pc' = [pc EXCEPT ![r] = "done"]
         /\ \/ /\ calls' = [calls EXCEPT ![r] =
                              Append(@, Call("checkout.sessions.retrieve", FALSE, sessionId))]
               /\ nexted' = [nexted EXCEPT ![r] = @ + 1]
               /\ UNCHANGED sent
            \/ /\ sessionId \in DOMAIN sessions
               /\ sessions[sessionId].object = "checkout.session"
               /\ calls' = [calls EXCEPT ![r] =
                              Append(@, Call("checkout.sessions.retrieve", TRUE, sessionId))]
               /\ sent' = [sent EXCEPT ![r] =
                              Append(@, Send([customer |-> sessions[sessionId].customer]))]
               /\ UNCHANGED nexted
    /\ UNCHANGED <<provider, local, thrown, logged>>

PortalSession(id, customer) ==
    [id |-> id, object |-> "billing_portal.session", url |-> <<"portal", id>>,
     customer |-> customer, return_url |-> <<"/customer", customer>>]

customerPortal(r) ==
    /\ Free(r)
    /\ \E customer \in 1..MaxInitCustomers :
         /\ req' = [req EXCEPT ![r] = [kind |-> "customerPortal",
                                       body |-> [customer |-> customer]]]
         /\ pc' = [pc EXCEPT ![r] = "done"]
         /\ \/ /\ calls' = [calls EXCEPT ![r] =
                              Append(@, Call("billingPortal.sessions.create", FALSE, 0))]
               /\ nexted' = [nexted EXCEPT ![r] = @ + 1]
               /\ UNCHANGED <<sessions, sent>>
            \/ LET portalSession == PortalSession(Len(sessions) + 1, customer)
               IN /\ customer \in DOMAIN customers
                  /\ sessions' = Append(sessions, portalSession)
                  /\ calls' = [calls EXCEPT ![r] =
                                 Append(@, Call("billingPortal.sessions.create", TRUE, portalSession.id))]
                  /\ sent' = [sent EXCEPT ![r] = Append(@, Redirect(SeeOther, portalSession.url))]
                  /\ UNCHANGED nexted
    /\ UNCHANGED <<customers, paymentIntents, setupIntents, subscriptions,
                   local, thrown, logged>>

FreeTrialSubscription(id, body, by) ==
    [id |-> id, customer |-> body.customerId, items |-> <<[price |-> body.priceId]>>,
     trial_period_days |-> TrialPeriodDays,
     default_payment_method |-> body.paymentMethod,
     metadata |-> [userId |-> body.userId, email |-> body.email], by |-> by]

createFreeTrialSubscription(r) ==
    /\ Free(r)
    /\ \E customerId \in 1..MaxInitCustomers :
       LET body == [userId |-> "u1", email |-> "a@x.com", customerId |-> customerId,
                    paymentMethod |-> "pm_1", priceId |-> "price_1"]
       IN /\ req' = [req EXCEPT ![r] = [kind |-> "createFreeTrialSubscription", body |-> body]]
          /\ pc' = [pc EXCEPT ![r] = "done"]
          /\ \/ /\ calls' = [calls EXCEPT ![r] =
                               Append(@, Call("subscriptions.create", FALSE, 0))]
                /\ nexted' = [nexted EXCEPT ![r] = @ + 1]
                /\ UNCHANGED <<subscriptions, sent, logged>>
             \/ LET subscription == FreeTrialSubscription(Len(subscriptions) + 1, body, r)
                IN /\ customerId \in DOMAIN customers
                   /\ subscriptions' = Append(subscriptions, subscription)
                   /\ calls' = [calls EXCEPT ![r] =
                                  Append(@, Call("subscriptions.create", TRUE, subscription.id))]
                   /\ logged' = [logged EXCEPT ![r] =
                                  Append(@, [level |-> "debug", msg |-> <<"[SUBSCRIPTION]", subscription.id>>])]
                   /\ sent' = [sent EXCEPT ![r] = Append(@, Send([subscription |-> subscription]))]
                   /\ UNCHANGED nexted
    /\ UNCHANGED <<customers, paymentIntents, setupIntents, sessions, local, thrown>>

(***************************************************************************)
(* Initial states                                                          *)
(***************************************************************************)
InitRequests ==
    /\ req = [r \in Slots |-> IdleReq]
    /\ pc = [r \in Slots |-> "idle"]
    /\ local = [r \in Slots |-> NoLocal]
    /\ sent = [r \in Slots |-> <<>>]
    /\ nexted = [r \in Slots |-> 0]
    /\ thrown = [r \in Slots |-> FALSE]
    /\ calls = [r \in Slots |-> <<>>]
    /\ logged = [r \in Slots |-> <<>>]

EmptyProvider ==
    /\ customers = <<>>
    /\ paymentIntents = <<>>
    /\ setupIntents = <<>>
    /\ subscriptions = <<>>
    /\ sessions = <<>>

InitWebhook == InitRequests /\ EmptyProvider

NextWebhook == \E r \in Slots : webhook(r)

SpecWebhook == InitWebhook /\ [][NextWebhook]_vars

\* The customers the provider holds before the first request, and the
\* intents it holds for them, in the order a search or list returns them.
InitCustomers(n, em) ==
    [i \in 1..n |-> NewCustomer(i, [email |-> em[i], name |-> "A", userId |-> "u0"], 0)]

InitIntents(prefix, m, f) ==
    [k \in 1..m |-> NewIntent(prefix, k, f[k][1], f[k][2], 0)]

\* the emails are interchangeable: the first customer's is fixed
InitEmails(n) == {em \in [1..n -> Emails] : n > 0 => em[1] = "a@x.com"}

\* m intents, each of a customer and in a status; the store keeps them by
\* customer, and within a customer in the order a search returns them
InitHoldings(n, m) ==
    {f \in [1..m -> (1..n) \X Statuses] : \A k \in 1..(m-1) : f[k][1] <= f[k+1][1]}

InitNoTrial ==
    /\ InitRequests
    /\ setupIntents = <<>>
    /\ subscriptions = <<>>
    /\ sessions = <<>>
    /\ \E n \in 0..MaxInitCustomers, m \in 0..MaxIntents :
       \E em \in InitEmails(n), f \in InitHoldings(n, m) :
         /\ customers = InitCustomers(n, em)
         /\ paymentIntents = InitIntents("pi", m, f)

InitSetupIntent ==
    /\ InitRequests
    /\ paymentIntents = <<>>
    /\ subscriptions = <<>>
    /\ sessions = <<>>
    /\ \E n \in 0..MaxInitCustomers, m \in 0..MaxIntents :
       \E em \in InitEmails(n), f \in InitHoldings(n, m) :
         /\ customers = InitCustomers(n, em)
         /\ setupIntents = InitIntents("seti", m, f)

InitRace == InitRequests /\ EmptyProvider

NextNoTrial ==
    \E r \in Slots :
        \/ createNoTrialSubscription(r)
        \/ NoTrialPaymentIntentsSearch(r)
        \/ NoTrialCustomersCreate(r)
        \/ NoTrialSubscriptionsCreate(r)

NextSetupIntent ==
    \E r \in Slots :
        \/ setupIntent(r)
        \/ SetupIntentSetupIntentsList(r)
        \/ SetupIntentCustomersCreate(r)
        \/ SetupIntentSetupIntentsCreate(r)

NextRace == NextNoTrial \/ NextSetupIntent

SpecNoTrial == InitNoTrial /\ [][NextNoTrial]_vars

SpecSetupIntent == InitSetupIntent /\ [][NextSetupIntent]_vars

SpecRace == InitRace /\ [][NextRace]_vars

InitCheckout ==
    /\ InitRequests
    /\ paymentIntents = <<>>
    /\ setupIntents = <<>>
    /\ subscriptions = <<>>
    /\ sessions = <<>>
    /\ \E n \in 0..MaxInitCustomers : \E em \in InitEmails(n) :
         customers = InitCustomers(n, em)

NextCheckout ==
    \E r \in Slots :
        \/ createCheckoutSession(r)
        \/ loadStripe(r)
        \/ loadPrices(r)
        \/ checkoutSubscriptionSuccess(r)
        \/ customerPortal(r)
        \/ createFreeTrialSubscription(r)

SpecCheckout == InitCheckout /\ [][NextCheckout]_vars

(***************************************************************************)
(* Properties of webhook (SpecWebhook)                                     *)
(***************************************************************************)
IsWebhook(r) == req[r].kind = "webhook"

\* the signature header is the provider's signature of this body
Genuine(r) == req[r].body.sig = <<req[r].body.rawBody, "whsec_env">>

HandlersInvoked(r) == [i \in DOMAIN calls[r] |-> calls[r][i].op]

HandlerFailed(r) == \E i \in DOMAIN calls[r] : ~calls[r][i].ok

\* C1: a webhook request whose signature does not verify (the header missing
\* included) is answered once, with status 400 and a diagnostic text, and
\* none of the three stripeEvents handlers is invoked for it.
C1_BadSignatureRejected ==
    \A r \in Slots :
        (IsWebhook(r) /\ ~Genuine(r)) =>
            /\ Len(sent[r]) = 1
            /\ sent[r][1].status = 400
            /\ sent[r][1].body[1] = "Webhook Error"
            /\ calls[r] = <<>>
            /\ nexted[r] = 0
            /\ ~thrown[r]

\* a request for a handled event type arrived without a signature header and
\* was answered 400
C1_Witness ==
    \E r \in Slots :
        /\ IsWebhook(r)
        /\ req[r].body.sig = <<>>
        /\ req[r].body.rawBody.type = "setup_intent.succeeded"
        /\ pc[r] = "done"
        /\ sent[r] = <<[status |-> 400,
                        body |-> <<"Webhook Error",
                                   "No signatures found matching the expected signature">>]>>

\* C2: for a verified event, each of the three handled types invokes its own
\* handler exactly once and no other handler; every other type, known or
\* unrecognized, invokes none.
C2_DispatchByType ==
    \A r \in Slots :
        (IsWebhook(r) /\ Genuine(r)) =>
            LET t == req[r].body.rawBody.type
            IN /\ t = "setup_intent.succeeded" =>
                      HandlersInvoked(r) = <<"setupIntentSucceeded">>
               /\ t = "invoice.payment_succeeded" =>
                      HandlersInvoked(r) = <<"invoicePaymentSucceeded">>
               /\ t = "customer.subscription.created" =>
                      HandlersInvoked(r) = <<"customerSubscriptionCreated">>
               /\ t \notin {"setup_intent.succeeded", "invoice.payment_succeeded",
                            "customer.subscription.created"} =>
                      HandlersInvoked(r) = <<>>

\* one verified request ran customerSubscriptionCreated, another, of an
\* unrecognized type, ran nothing and was acknowledged
C2_Witness ==
    \E r, q \in Slots :
        /\ IsWebhook(r) /\ Genuine(r)
        /\ req[r].body.rawBody.type = "customer.subscription.created"
        /\ calls[r] = <<Call("customerSubscriptionCreated", TRUE, 0)>>
        /\ IsWebhook(q) /\ Genuine(q)
        /\ req[q].body.rawBody.type = "charge.refunded"
        /\ calls[q] = <<>>
        /\ sent[q] = <<[status |-> 200, body |-> <<>>]>>

\* C3: once verification has passed, a failure of any of the three handlers
\* is forwarded to the error middleware through next(error).
C3_HandlerFailureForwarded ==
    \A r \in Slots :
        (IsWebhook(r) /\ Genuine(r) /\ HandlerFailed(r)) => nexted[r] = 1

\* C10: a handler invocation that has returned gave its request exactly one
\* terminal outcome: one response sent or one error forwarded to next, never
\* both; a webhook request whose handler failed is not both forwarded and
\* acknowledged.
C10_OneTerminalOutcome ==
    \A r \in Slots :
        (pc[r] = "done" /\ ~thrown[r]) => Len(sent[r]) + nexted[r] = 1

(***************************************************************************)
(* Properties of createNoTrialSubscription (SpecNoTrial)                   *)
(***************************************************************************)
IsNoTrial(r) == req[r].kind = "createNoTrialSubscription"

Pending(intent) == intent.status = "requires_payment_method"

\* the calls of slot r that create something at the provider
CreateOps == {"customers.create", "subscriptions.create", "setupIntents.create"}
Creates(r) == SelectSeq(calls[r], LAMBDA c : c.op \in CreateOps)

CreatedBy(store, r) == {i \in DOMAIN store : store[i].by = r}

CreatedNothing(r) ==
    /\ Creates(r) = <<>>
    /\ CreatedBy(customers, r) = {}
    /\ CreatedBy(subscriptions, r) = {}
    /\ CreatedBy(paymentIntents, r) = {}
    /\ CreatedBy(setupIntents, r) = {}

\* the email search of slot r returned a customer and the search of that
\* customer's payment intents returned too
NoTrialFound(r) ==
    /\ IsNoTrial(r)
    /\ pc[r] = "done"
    /\ Len(local[r].customerExists) > 0
    /\ Len(calls[r]) = 2
    /\ calls[r][2] = Call("paymentIntents.search", TRUE, 0)

\* C4: an existing customer without a pending payment intent (one without
\* any payment intent included) gets {customerExist: id} and nothing is
\* created.
C4_ExistingCustomerReported ==
    \A r \in Slots :
        (NoTrialFound(r) /\ \A i \in DOMAIN local[r].data : ~Pending(local[r].data[i])) =>
            /\ sent[r] = <<[status |-> 200,
                            body |-> [customerExist |-> local[r].customerExists[1].id]]>>
            /\ nexted[r] = 0
            /\ CreatedNothing(r)

\* C5, as claimed: a pending payment intent at any position among the
\* customer's payment intents is answered with that intent's client secret.
C5_PendingAtAnyPosition ==
    \A r \in Slots :
        (NoTrialFound(r) /\ \E i \in DOMAIN local[r].data : Pending(local[r].data[i])) =>
            /\ \E i \in DOMAIN local[r].data :
                 /\ Pending(local[r].data[i])
                 /\ sent[r] = <<[status |-> 200,
                                 body |-> [clientSecret |-> local[r].data[i].client_secret,
                                           customerId |-> local[r].customerExists[1].id]]>>
            /\ CreatedNothing(r)

\* C5, amended: when the first payment intent the search returns for the
\* first matching customer is pending, the answer is that intent's client
\* secret, as the provider holds it, with the first matching customer's id,
\* and nothing is created; when the first is not pending, a pending one
\* further on is not looked at and the answer is {customerExist}.
C5_FirstPendingResumed ==
    \A r \in Slots :
        (NoTrialFound(r) /\ Len(local[r].data) > 0) =>
            LET first == local[r].data[1]
                customer == local[r].customerExists[1]
            IN /\ nexted[r] = 0
               /\ CreatedNothing(r)
               /\ paymentIntents[first.id] = first
               /\ first.client_secret = <<"pi", first.id, "secret">>
               /\ customer = customers[customer.id]
               /\ customer.email = req[r].body.email
               /\ \A i \in 1..(customer.id - 1) : customers[i].email # req[r].body.email
               /\ sent[r] = <<[status |-> 200,
                               body |-> IF Pending(first)
                                        THEN [clientSecret |-> first.client_secret,
                                              customerId |-> customer.id]
                                        ELSE [customerExist |-> customer.id]]>>

\* a request found two customers with its email, the first of them holding a
\* pending payment intent followed by a settled one, and got the pending
\* intent's secret
C5_Witness ==
    \E r \in Slots :
        /\ NoTrialFound(r)
        /\ Len(local[r].customerExists) >= 2
        /\ Len(local[r].data) >= 2
        /\ Pending(local[r].data[1])
        /\ ~Pending(local[r].data[2])
        /\ sent[r] = <<[status |-> 200,
                        body |-> [clientSecret |-> local[r].data[1].client_secret,
                                  customerId |-> local[r].customerExists[1].id]]>>

\* the email search of slot r returned no customer
NoTrialNotFound(r) ==
    /\ IsNoTrial(r)
    /\ Len(calls[r]) >= 1
    /\ calls[r][1] = Call("customers.search", TRUE, 0)
    /\ local[r].customerExists = <<>>

\* C6: when the email search finds no customer, the handler creates one
\* customer and only then one subscription, for that customer and with
\* payment behaviour default_incomplete, and answers with the client secret
\* of the new subscription's payment intent and the new customer's id; a
\* provider call that rejects ends the request on the error path instead.
C6_CreateCustomerThenSubscription ==
    \A r \in Slots :
        NoTrialNotFound(r) =>
            LET made == Creates(r)
                mine == CreatedBy(customers, r)
                subs == CreatedBy(subscriptions, r)
            IN /\ Len(made) <= 2
               /\ Len(made) >= 1 => made[1].op = "customers.create"
               /\ Len(made) = 2 => made[1].ok /\ made[2].op = "subscriptions.create"
               /\ mine = IF Len(made) >= 1 /\ made[1].ok THEN {made[1].id} ELSE {}
               /\ subs = IF Len(made) = 2 /\ made[2].ok THEN {made[2].id} ELSE {}
               /\ \A c \in mine : customers[c].id = c /\ customers[c].email = req[r].body.email
               /\ \A k \in subs :
                    /\ subscriptions[k].customer = made[1].id
                    /\ subscriptions[k].payment_behavior = "default_incomplete"
                    /\ subscriptions[k].items = <<[price |-> req[r].body.priceId]>>
               /\ pc[r] = "done" =>
                    IF subs # {}
                    THEN /\ nexted[r] = 0
                         /\ \E k \in subs :
                              LET pi == paymentIntents[subscriptions[k].latest_invoice.payment_intent]
                              IN /\ pi.customer = made[1].id
                                 /\ pi.by = r
                                 /\ sent[r] = <<[status |-> 200,
                                                 body |-> [clientSecret |-> pi.client_secret,
                                                           customerId |-> made[1].id]]>>
                    ELSE nexted[r] = 1 /\ sent[r] = <<>>
               /\ pc[r] # "done" => sent[r] = <<>> /\ nexted[r] = 0 /\ subs = {}

\* a request found no customer, created customer and subscription and was
\* answered
C6_Witness ==
    \E r \in Slots :
        /\ NoTrialNotFound(r)
        /\ pc[r] = "done"
        /\ Len(calls[r]) = 3
        /\ calls[r][2].op = "customers.create" /\ calls[r][2].ok
        /\ calls[r][3].op = "subscriptions.create" /\ calls[r][3].ok
        /\ Len(sent[r]) = 1
        /\ sent[r][1].body.customerId = calls[r][2].id

(***************************************************************************)
(* Properties of setupIntent (SpecSetupIntent)                             *)
(***************************************************************************)
IsSetupIntent(r) == req[r].kind = "setupIntent"

\* the email search of slot r returned a customer and the list of that
\* customer's setup intents returned too
SetupIntentFound(r) ==
    /\ IsSetupIntent(r)
    /\ pc[r] = "done"
    /\ Len(local[r].customerExists) > 0
    /\ Len(calls[r]) = 2
    /\ calls[r][2] = Call("setupIntents.list", TRUE, 0)

\* C7: setupIntent mirrors the no-trial pattern; in particular an existing
\* customer without a pending setup intent (one without any setup intent
\* included) gets {customerExist: id} and nothing is created.
C7_NoPendingReported ==
    \A r \in Slots :
        (SetupIntentFound(r) /\ \A i \in DOMAIN local[r].data : ~Pending(local[r].data[i])) =>
            /\ sent[r] = <<[status |-> 200,
                            body |-> [customerExist |-> local[r].customerExists[1].id]]>>
            /\ nexted[r] = 0
            /\ CreatedNothing(r)

(***************************************************************************)
(* Properties of createCheckoutSession (SpecCheckout)                      *)
(***************************************************************************)
IsCheckout(r) == req[r].kind = "createCheckoutSession"

\* the field is absent or empty
Lacks(body, field) == body[field] \in {"undefined", ""}

\* C8: a request body lacking price or userId ends with one error forwarded
\* to next, no call of checkout.sessions.create and no redirect; with both
\* present, checkout.sessions.create is called exactly once, and the session
\* it creates is answered with a 303 redirect to its url (a rejected call is
\* forwarded to next instead).
C8_CheckoutValidated ==
    \A r \in Slots :
        IsCheckout(r) =>
            LET body == req[r].body
            IN /\ (Lacks(body, "price") \/ Lacks(body, "userId")) =>
                    /\ nexted[r] = 1
                    /\ calls[r] = <<>>
                    /\ sent[r] = <<>>
               /\ (~Lacks(body, "price") /\ ~Lacks(body, "userId")) =>
                    /\ Len(calls[r]) = 1
                    /\ calls[r][1].op = "checkout.sessions.create"
                    /\ IF calls[r][1].ok
                       THEN /\ calls[r][1].id \in DOMAIN sessions
                            /\ sessions[calls[r][1].id].line_items[1].price = body.price
                            /\ sessions[calls[r][1].id].mode = "subscription"
                            /\ sent[r] = <<[status |-> 303,
                                            location |-> sessions[calls[r][1].id].url]>>
                            /\ nexted[r] = 0
                       ELSE sent[r] = <<>> /\ nexted[r] = 1

\* one request with a price and no userId was forwarded to next without a
\* provider call; another, with both, was redirected to its new session
C8_Witness ==
    \E r, q \in Slots :
        /\ IsCheckout(r)
        /\ req[r].body.price = "price_1" /\ req[r].body.userId = "undefined"
        /\ nexted[r] = 1 /\ calls[r] = <<>> /\ sent[r] = <<>>
        /\ IsCheckout(q)
        /\ req[q].body.price = "price_1" /\ req[q].body.userId = "u1"
        /\ Len(sent[q]) = 1 /\ sent[q][1].status = 303
        /\ \E i \in DOMAIN sessions : sent[q][1].location = sessions[i].url

(***************************************************************************)
(* The find-or-create race (SpecRace)                                      *)
(***************************************************************************)
\* C9: search-then-create is not atomic.  Every customer was created by a
\* request whose own email search had returned nothing, each request creates
\* at most one, so two customers share an email exactly when two requests
\* for it both searched before either created; the same for the
\* subscriptions and setup intents that follow.
C9_CreatedAfterEmptySearch ==
    /\ \A i \in DOMAIN customers :
         LET r == customers[i].by
         IN /\ r \in Slots
            /\ local[r].customerExists = <<>>
            /\ calls[r][1] = Call("customers.search", TRUE, 0)
            /\ req[r].body.email = customers[i].email
            /\ \A j \in DOMAIN customers : customers[j].by = r => j = i
    /\ \A k \in DOMAIN subscriptions :
         /\ subscriptions[k].by \in Slots
         /\ customers[subscriptions[k].customer].by = subscriptions[k].by
    /\ \A k \in DOMAIN setupIntents :
         /\ setupIntents[k].by \in Slots
         /\ customers[setupIntents[k].customer].by = setupIntents[k].by

\* two no-trial requests for one email both found no customer, both created
\* one and both were answered: two customers with that email, each with a
\* subscription
C9_Witness ==
    \E r, q \in Slots :
        /\ r # q
        /\ IsNoTrial(r) /\ IsNoTrial(q)
        /\ req[r].body.email = req[q].body.email
        /\ local[r].customerExists = <<>> /\ local[q].customerExists = <<>>
        /\ pc[r] = "done" /\ pc[q] = "done"
        /\ Len(sent[r]) = 1 /\ Len(sent[q]) = 1
        /\ Len(customers) = 2
        /\ customers[1].email = customers[2].email
        /\ Len(subscriptions) = 2
        /\ subscriptions[1].customer # subscriptions[2].customer

\* the same race between two setupIntent requests: two customers with one
\* email, each with a new setup intent
C9_SetupIntentRace ==
    \E r, q \in Slots :
        /\ r # q
        /\ IsSetupIntent(r) /\ IsSetupIntent(q)
        /\ req[r].body.email = req[q].body.email
        /\ pc[r] = "done" /\ pc[q] = "done"
        /\ Len(sent[r]) = 1 /\ Len(sent[q]) = 1
        /\ Len(customers) = 2
        /\ customers[1].email = customers[2].email
        /\ Len(setupIntents) = 2
        /\ setupIntents[1].customer # setupIntents[2].customer

====
